---- MODULE Spec2Model ----
(***************************************************************************)
(* A model of the DSSS simulator backend (backend/app/dsss_engine.py,      *)
(* backend/app/routes.py, backend/app/schemas.py).                         *)
(*                                                                         *)
(* Representation.  Bit arrays are sequences over {0,1}.  Waveforms are    *)
(* sequences of integers: a sample is kept as an exact integer numerator   *)
(* (the carrier cos(2*pi*f*t) is kept as 2*cos, which is an integer at the *)
(* sample instants the model draws), and a window mean is kept as the      *)
(* window sum, i.e. the mean times the positive window size, which is what *)
(* the receiver's hard decision (metric > 0) reads.  A Python exception is *)
(* a record with raised = TRUE and the exception's class in error.         *)
(*                                                                         *)
(* Randomness.  The chips are computed: the generator seeded with a        *)
(* secret's seed is numpy's PCG64 behind a SeedSequence.  What the         *)
(* unseeded noise generator gives is drawn: when the channel noise is on,  *)
(* which of the receiver's hard decisions the noise inverts.  A sample the *)
(* noise was added to is not a number of the model (NoisySample).          *)
(***************************************************************************)
EXTENDS Integers, Sequences, FiniteSets, TLC

VARIABLES
    cache,       \* DSSSEngine._cache: the OrderedDict, oldest entry first
    cache_size,  \* DSSSEngine._cache_size
    result,      \* the last call: its arguments and what it returned or raised
    order,       \* history: the ids given to _store, by latest store, earliest first
    pc,          \* concurrent callers: each thread's position in its call
    local        \* concurrent callers: each thread's arguments and locals

vars == <<cache, cache_size, result, order, pc, local>>

(***************************************************************************)
(* Bounds of the model.                                                    *)
(***************************************************************************)
MaxBits == 5        \* longest payload bit array drawn for the codec
MaxMessageLen == 1  \* longest message, in characters, drawn for simulate
MaxCacheSize == 2   \* largest configured cache capacity
MaxIds == 3         \* distinct simulation ids in play
NumThreads == 2     \* threads calling one engine at the same time
MaxNoisyDecisions == 14  \* most hard decisions of a call made with the noise on

(***************************************************************************)
(* schemas.py                                                              *)
(***************************************************************************)
StageName == {"source", "spreader", "modulator", "channel", "correlator", "decoder"}

CodingScheme == {"nrz", "manchester", "rep3", "hamming74"}

\* A value that is no member of the CodingScheme enumeration.
UnsupportedScheme == "bogus"

(***************************************************************************)
(* Small helpers standing for the numpy / Python primitives the code uses  *)
(***************************************************************************)
Max(a, b) == IF a >= b THEN a ELSE b

Xor(a, b) == (a + b) % 2

\* a[:n] for n >= 0
Take(s, n) == SubSeq(s, 1, IF n < Len(s) THEN n ELSE Len(s))

\* An array is allocated with all its elements computed, once.
Array(f) == SubSeq(f, 1, Len(f))

\* np.repeat(s, k) for k >= 0: every element k times, in order
_repeat(sequence, repeat_factor) ==
    Array([i \in 1..(Len(sequence) * repeat_factor) |->
              sequence[((i - 1) \div repeat_factor) + 1]])

\* np.tile(s, k)
Tile(s, k) == Array([i \in 1..(Len(s) * k) |-> s[((i - 1) % Len(s)) + 1]])

\* dict.get(key, default)
MetaGet(meta, key, default) == IF key \in DOMAIN meta THEN meta[key] ELSE default

RECURSIVE SumRange(_, _, _)
SumRange(s, lo, hi) ==
    IF lo > hi THEN 0
    ELSE IF lo = hi THEN s[lo]
    ELSE SumRange(s, lo, (lo + hi) \div 2) + SumRange(s, (lo + hi) \div 2 + 1, hi)

BitSeqs(n) == UNION {[1..k -> {0, 1}] : k \in 0..n}

(***************************************************************************)
(* Coding helpers: DSSSEngine._encode_bits                                 *)
(***************************************************************************)
ManchesterEncode(bits) ==
    Array([i \in 1..(2 * Len(bits)) |->
        LET b == bits[((i - 1) \div 2) + 1]
        IN  IF i % 2 = 1 THEN (IF b = 1 THEN 1 ELSE 0)
                         ELSE (IF b = 1 THEN 0 ELSE 1)])

\* A variant of the padding length without the outer modulo.
HammingPaddingUnwrapped(n) == 4 - (n % 4)

\* (-bits.size) % 4
HammingPadding(n) == (4 - (n % 4)) % 4

\* np.pad(bits, (0, padding))
PadZeros(bits, padding) == bits \o [i \in 1..padding |-> 0]

\* the codeword (p1, p2, d1, p3, d2, d3, d4) of one 4-bit block
Codeword(d1, d2, d3, d4) ==
    LET p1 == Xor(Xor(d1, d2), d4)
        p2 == Xor(Xor(d1, d3), d4)
        p3 == Xor(Xor(d2, d3), d4)
    IN  <<p1, p2, d1, p3, d2, d3, d4>>

HammingEncode(padded) ==
    Array([i \in 1..(7 * (Len(padded) \div 4)) |->
        LET blk == (i - 1) \div 7
            d(k) == padded[4 * blk + k]
        IN  Codeword(d(1), d(2), d(3), d(4))[((i - 1) % 7) + 1]])

_encode_bits(bits, scheme) ==
    LET meta == ("payload_bits" :> Len(bits))
    IN  CASE scheme = "nrz" ->
               [raised |-> FALSE, bits |-> bits, meta |-> meta]
          [] scheme = "manchester" ->
               [raised |-> FALSE, bits |-> ManchesterEncode(bits), meta |-> meta]
          [] scheme = "rep3" ->
               [raised |-> FALSE, bits |-> _repeat(bits, 3),
                meta |-> meta @@ ("repeat" :> 3)]
          [] scheme = "hamming74" ->
               LET padding == HammingPadding(Len(bits))
                   padded == IF padding # 0 THEN PadZeros(bits, padding) ELSE bits
               IN  [raised |-> FALSE, bits |-> HammingEncode(padded),
                    meta |-> meta @@ ("padding" :> padding)]
          [] OTHER ->
               [raised |-> TRUE, error |-> "ValueError"]

(***************************************************************************)
(* Coding helpers: DSSSEngine._decode_bits                                 *)
(***************************************************************************)
ManchesterDecode(bits) ==
    Array([k \in 1..(Len(bits) \div 2) |->
        IF bits[2 * k - 1] > bits[2 * k] THEN 1 ELSE 0])

\* math.ceil(repeat / 2)
CeilHalf(n) == (n + 1) \div 2

MajorityDecode(bits, repeat) ==
    Array([k \in 1..(Len(bits) \div repeat) |->
        IF SumRange(bits, repeat * (k - 1) + 1, repeat * k) >= CeilHalf(repeat)
        THEN 1 ELSE 0])

\* syndrome = s1 + (s2 << 1) + (s3 << 2) of the 7-bit block c
Syndrome(c) ==
    LET s1 == Xor(Xor(c[1], c[3]), Xor(c[5], c[7]))
        s2 == Xor(Xor(c[2], c[3]), Xor(c[6], c[7]))
        s3 == Xor(Xor(c[4], c[5]), Xor(c[6], c[7]))
    IN  s1 + 2 * s2 + 4 * s3

\* A variant that takes the syndrome itself as the 0-indexed position.
ErrorPosOneBased(syn) == syn

\* pos = syn - 1, the 0-indexed position blocks[idx, pos] that is flipped
ErrorPos(syn) == syn - 1

\* The array `blocks` (flattened) after the correction loop.  `blocks` is a
\* numpy view of the argument, so this is also what the caller's array holds
\* over its first (size // 7) * 7 elements once _decode_bits has returned.
CorrectBlocks(bits) ==
    Array([i \in 1..(7 * (Len(bits) \div 7)) |->
        LET blk == (i - 1) \div 7
            c == SubSeq(bits, 7 * blk + 1, 7 * blk + 7)
            syn == Syndrome(c)
        IN  IF syn # 0 /\ ErrorPos(syn) = (i - 1) % 7 THEN Xor(bits[i], 1) ELSE bits[i]])

\* blocks[:, [2, 4, 5, 6]].reshape(-1)
ExtractData(blocks) ==
    Array([j \in 1..(4 * (Len(blocks) \div 7)) |->
        LET blk == (j - 1) \div 4
        IN  blocks[7 * blk + <<3, 5, 6, 7>>[((j - 1) % 4) + 1]]])

\* data[:-padding] for padding > 0
DropTail(data, padding) == Take(data, Max(Len(data) - padding, 0))

_decode_bits(bits, scheme, meta) ==
    LET payload_len == MetaGet(meta, "payload_bits", Len(bits))
    IN  CASE scheme = "nrz" ->
               [raised |-> FALSE, bits |-> Take(bits, payload_len)]
          [] scheme = "manchester" ->
               [raised |-> FALSE, bits |-> Take(ManchesterDecode(bits), payload_len)]
          [] scheme = "rep3" ->
               LET repeat == MetaGet(meta, "repeat", 3)
               IN  [raised |-> FALSE,
                    bits |-> Take(MajorityDecode(bits, repeat), payload_len)]
          [] scheme = "hamming74" ->
               LET data == ExtractData(CorrectBlocks(bits))
                   padding == MetaGet(meta, "padding", 0)
                   kept == IF padding # 0 THEN DropTail(data, padding) ELSE data
               IN  [raised |-> FALSE, bits |-> Take(kept, payload_len)]
          [] OTHER ->
               [raised |-> TRUE, error |-> "ValueError"]

\* The caller's array after _decode_bits(bits, ...) has returned: only the
\* Hamming branch writes (blocks[idx, pos] ^= 1, through the view).
ArrayAfterDecode(bits, scheme) ==
    IF scheme = "hamming74"
    THEN CorrectBlocks(bits) \o SubSeq(bits, 7 * (Len(bits) \div 7) + 1, Len(bits))
    ELSE bits

(***************************************************************************)
(* Text codec: str.encode("utf-8"), _text_to_bits, _bits_to_text.          *)
(* A string is the sequence of its code points.                            *)
(***************************************************************************)
ReplacementChar == 65533

\* str.encode("utf-8") of one code point (a Unicode scalar value)
EncodeCodePoint(cp) ==
    IF cp < 128 THEN <<cp>>
    ELSE IF cp < 2048 THEN <<192 + (cp \div 64), 128 + (cp % 64)>>
    ELSE IF cp < 65536
         THEN <<224 + (cp \div 4096), 128 + ((cp \div 64) % 64), 128 + (cp % 64)>>
    ELSE <<240 + (cp \div 262144), 128 + ((cp \div 4096) % 64),
           128 + ((cp \div 64) % 64), 128 + (cp % 64)>>

RECURSIVE EncodeUtf8(_)
EncodeUtf8(message) ==
    IF message = <<>> THEN <<>>
    ELSE EncodeCodePoint(Head(message)) \o EncodeUtf8(Tail(message))

\* A variant that unpacks each byte least significant bit first.
TextToBitsLsbFirst(data) ==
    Array([i \in 1..(8 * Len(data)) |->
        (data[((i - 1) \div 8) + 1] \div (2 ^ ((i - 1) % 8))) % 2])

\* np.unpackbits: most significant bit first
_text_to_bits(data) ==
    Array([i \in 1..(8 * Len(data)) |->
        (data[((i - 1) \div 8) + 1] \div (2 ^ (7 - ((i - 1) % 8)))) % 2])

\* np.packbits of a bit array whose length is a multiple of 8
PackBits(bits) ==
    Array([k \in 1..(Len(bits) \div 8) |->
        LET b(j) == bits[8 * (k - 1) + j]
        IN  128 * b(1) + 64 * b(2) + 32 * b(3) + 16 * b(4)
            + 8 * b(5) + 4 * b(6) + 2 * b(7) + b(8)])

IsCont(data, i, lo, hi) == i <= Len(data) /\ data[i] >= lo /\ data[i] <= hi

\* bytes.decode("utf-8", errors="replace") at index i: the code point produced
\* and the number of bytes consumed (an ill-formed maximal subpart gives U+FFFD)
DecodeStep(data, i) ==
    LET b == data[i]
        c(k) == data[i + k] % 64
        lo2 == IF b = 224 THEN 160 ELSE IF b = 240 THEN 144 ELSE 128
        hi2 == IF b = 237 THEN 159 ELSE IF b = 244 THEN 143 ELSE 191
        bad(n) == [cp |-> ReplacementChar, used |-> n]
    IN  IF b < 128 THEN [cp |-> b, used |-> 1]
        ELSE IF b >= 194 /\ b <= 223 THEN
            IF IsCont(data, i + 1, 128, 191)
            THEN [cp |-> (b - 192) * 64 + c(1), used |-> 2]
            ELSE bad(1)
        ELSE IF b >= 224 /\ b <= 239 THEN
            IF ~IsCont(data, i + 1, lo2, hi2) THEN bad(1)
            ELSE IF ~IsCont(data, i + 2, 128, 191) THEN bad(2)
            ELSE [cp |-> (b - 224) * 4096 + c(1) * 64 + c(2), used |-> 3]
        ELSE IF b >= 240 /\ b <= 244 THEN
            IF ~IsCont(data, i + 1, lo2, hi2) THEN bad(1)
            ELSE IF ~IsCont(data, i + 2, 128, 191) THEN bad(2)
            ELSE IF ~IsCont(data, i + 3, 128, 191) THEN bad(3)
            ELSE [cp |-> (b - 240) * 262144 + c(1) * 4096 + c(2) * 64 + c(3),
                  used |-> 4]
        ELSE bad(1)

RECURSIVE DecodeUtf8From(_, _)
DecodeUtf8From(data, i) ==
    IF i > Len(data) THEN <<>>
    ELSE LET st == DecodeStep(data, i)
         IN  <<st.cp>> \o DecodeUtf8From(data, i + st.used)

DecodeUtf8(data) == DecodeUtf8From(data, 1)

_bits_to_text(bits, expected_bytes) ==
    IF Len(bits) = 0 THEN <<>>
    ELSE LET trimmed == Take(bits, expected_bytes * 8)
             padded == PadZeros(trimmed, (8 - (Len(trimmed) % 8)) % 8)
             packed == Take(PackBits(padded), expected_bytes)
         IN  DecodeUtf8(packed)

(***************************************************************************)
(* Signal helpers                                                          *)
(***************************************************************************)
\* 2.0 * bits - 1.0
_nrz(bits) == Array([i \in 1..Len(bits) |-> 2 * bits[i] - 1])

(***************************************************************************)
(* hashlib.sha256 (FIPS 180-4).  A 32-bit word is the pair <<hi, lo>> of   *)
(* its 16-bit halves.  Where a value is used many times it is first named  *)
(* by a bound variable (x \in {e}), so that it is computed once.           *)
(***************************************************************************)
Pow2 == <<1, 2, 4, 8, 16, 32, 64, 128, 256, 512, 1024, 2048, 4096, 8192, 16384, 32768, 65536>>

\* bit i (0 the least significant) of the 16-bit number n
Bit(n, i) == (n \div Pow2[i + 1]) % 2

\* the sum of the words ws modulo 2^32
AddWords(ws) ==
    CHOOSE sum \in {<<(SumRange([k \in 1..Len(w) |-> w[k][1]], 1, Len(w)) + lo \div 65536) % 65536,
                      lo % 65536>> :
                       w \in {ws},
                       lo \in {SumRange([k \in 1..Len(ws) |-> ws[k][2]], 1, Len(ws))}} : TRUE

\* the 32-bit word w rotated right by n bits, 0 < n < 32
Rotr(w, n) ==
    CHOOSE rot \in {<<(x[1] \div Pow2[r + 1]) + (x[2] % Pow2[r + 1]) * Pow2[17 - r],
                      (x[2] \div Pow2[r + 1]) + (x[1] % Pow2[r + 1]) * Pow2[17 - r]>> :
                       x \in {IF n >= 16 THEN <<w[2], w[1]>> ELSE w}, r \in {n % 16}} : TRUE

\* the 32-bit word w shifted right by n bits, 0 < n < 16
Shr(w, n) ==
    <<w[1] \div Pow2[n + 1], (w[2] \div Pow2[n + 1]) + (w[1] % Pow2[n + 1]) * Pow2[17 - n]>>

\* a ^ b ^ c
Xor3(a, b, c) ==
    CHOOSE word \in {[half \in 1..2 |->
                         SumRange([i \in 1..16 |->
                             Pow2[i] * ((Bit(x[half], i - 1) + Bit(y[half], i - 1)
                                            + Bit(z[half], i - 1)) % 2)], 1, 16)] :
                        x \in {a}, y \in {b}, z \in {c}} : TRUE

\* (e & f) ^ (~e & g)
Ch(e, f, g) ==
    CHOOSE word \in {[half \in 1..2 |->
                         SumRange([i \in 1..16 |->
                             Pow2[i] * (IF Bit(x[half], i - 1) = 1 THEN Bit(y[half], i - 1)
                                        ELSE Bit(z[half], i - 1))], 1, 16)] :
                        x \in {e}, y \in {f}, z \in {g}} : TRUE

\* (a & b) ^ (a & c) ^ (b & c)
Maj(a, b, c) ==
    CHOOSE word \in {[half \in 1..2 |->
                         SumRange([i \in 1..16 |->
                             Pow2[i] * (IF Bit(x[half], i - 1) + Bit(y[half], i - 1)
                                              + Bit(z[half], i - 1) >= 2 THEN 1 ELSE 0)], 1, 16)] :
                        x \in {a}, y \in {b}, z \in {c}} : TRUE

BigSigma0(x) == Xor3(Rotr(x, 2), Rotr(x, 13), Rotr(x, 22))

BigSigma1(x) == Xor3(Rotr(x, 6), Rotr(x, 11), Rotr(x, 25))

SmallSigma0(x) == Xor3(Rotr(x, 7), Rotr(x, 18), Shr(x, 3))

SmallSigma1(x) == Xor3(Rotr(x, 17), Rotr(x, 19), Shr(x, 10))

\* the round constants and the initial hash value
Sha256K ==
    <<<<17034, 12184>>, <<28983, 17553>>, <<46528, 64463>>, <<59829, 56229>>,
       <<14678, 49755>>, <<23025, 4593>>, <<37439, 33444>>, <<43804, 24277>>,
       <<55303, 43672>>, <<4739, 23297>>, <<9265, 34238>>, <<21772, 32195>>,
       <<29374, 23924>>, <<32990, 45566>>, <<39900, 1703>>, <<49563, 61812>>,
       <<58523, 27073>>, <<61374, 18310>>, <<4033, 40390>>, <<9228, 41420>>,
       <<11753, 11375>>, <<19060, 33962>>, <<23728, 43484>>, <<30457, 35034>>,
       <<38974, 20818>>, <<43057, 50797>>, <<45059, 10184>>, <<48985, 32711>>,
       <<50912, 3059>>, <<54695, 37191>>, <<1738, 25425>>, <<5161, 10599>>,
       <<10167, 2693>>, <<11803, 8504>>, <<19756, 28156>>, <<21304, 3347>>,
       <<25866, 29524>>, <<30314, 2747>>, <<33218, 51502>>, <<37490, 11397>>,
       <<41663, 59553>>, <<43034, 26187>>, <<49739, 35696>>, <<51052, 20899>>,
       <<53650, 59417>>, <<54937, 1572>>, <<62478, 13701>>, <<4202, 41072>>,
       <<6564, 49430>>, <<7735, 27656>>, <<10056, 30540>>, <<13488, 48309>>,
       <<14620, 3251>>, <<20184, 43594>>, <<23452, 51791>>, <<26670, 28659>>,
       <<29839, 33518>>, <<30885, 25455>>, <<33992, 30740>>, <<36039, 520>>,
       <<37054, 65530>>, <<42064, 27883>>, <<48889, 41975>>, <<50801, 30962>>>>

Sha256H0 ==
    <<<<27145, 58983>>, <<47975, 44677>>, <<15470, 62322>>, <<42319, 62778>>,
       <<20750, 21119>>, <<39685, 26764>>, <<8067, 55723>>, <<23520, 52505>>>>

\* the message followed by 0x80, zero bytes up to 56 modulo 64, and the
\* message's length in bits as 8 bytes, most significant first
Sha256Pad(bytes) ==
    LET n == Len(bytes)
        total == 64 * ((n + 8) \div 64 + 1)
        bitlen == 8 * n
    IN  Array([i \in 1..total |->
            IF i <= n THEN bytes[i]
            ELSE IF i = n + 1 THEN 128
            ELSE IF i <= total - 4 THEN 0
            ELSE (bitlen \div <<1, 256, 65536, 16777216>>[total - i + 1]) % 256])

\* the 32-bit word made of the four bytes from position pos
BytesToWord(bytes, pos) ==
    <<256 * bytes[pos] + bytes[pos + 1], 256 * bytes[pos + 2] + bytes[pos + 3]>>

\* the message schedule grown to n words
RECURSIVE Sha256ScheduleTo(_, _)
Sha256ScheduleTo(w, n) ==
    IF Len(w) >= n THEN w
    ELSE IF Len(w) + 1 = n
    THEN Append(w, AddWords(<<SmallSigma1(w[Len(w) - 1]), w[Len(w) - 6],
                              SmallSigma0(w[Len(w) - 14]), w[Len(w) - 15]>>))
    ELSE CHOOSE all \in {Sha256ScheduleTo(half, n) :
             half \in {Sha256ScheduleTo(w, (Len(w) + n) \div 2)}} : TRUE

\* the message schedule W[1..64] grown from the block's 16 words
Sha256Schedule(w) ==
    CHOOSE all \in {Sha256ScheduleTo(first, 64) : first \in {w}} : TRUE

\* round t of the compression function on the working variables v = a..h
Sha256Round(v, k, wt) ==
    CHOOSE next \in {<<AddWords(<<t1, t2>>), v[1], v[2], v[3],
                       AddWords(<<v[4], t1>>), v[5], v[6], v[7]>> :
                       t1 \in {AddWords(<<v[8], BigSigma1(v[5]), Ch(v[5], v[6], v[7]), k, wt>>)},
                       t2 \in {AddWords(<<BigSigma0(v[1]), Maj(v[1], v[2], v[3])>>)}} : TRUE

\* rounds lo..hi
RECURSIVE Sha256Rounds(_, _, _, _)
Sha256Rounds(v, w, lo, hi) ==
    IF lo = hi THEN Sha256Round(v, Sha256K[lo], w[lo])
    ELSE CHOOSE last \in {Sha256Rounds(half, w, (lo + hi) \div 2 + 1, hi) :
             half \in {Sha256Rounds(v, w, lo, (lo + hi) \div 2)}} : TRUE

\* the hash value after the blocks from block number blk (0-indexed) on
RECURSIVE Sha256Blocks(_, _, _)
Sha256Blocks(h, padded, blk) ==
    IF 64 * blk >= Len(padded) THEN h
    ELSE CHOOSE last \in {Sha256Blocks(Array([j \in 1..8 |-> AddWords(<<h[j], v[j]>>)]),
                                       padded, blk + 1) :
             v \in {Sha256Rounds(h, w, 1, 64) :
                       w \in {Sha256Schedule(Array([j \in 1..16 |->
                                 BytesToWord(padded, 64 * blk + 4 * (j - 1) + 1)]))}}} : TRUE

\* hashlib.sha256(bytes).digest(): 32 bytes
Sha256(bytes) ==
    CHOOSE digest \in {Array([i \in 1..32 |->
                          LET half == h[(i - 1) \div 4 + 1][((i - 1) % 4) \div 2 + 1]
                          IN  IF (i - 1) % 2 = 0 THEN half \div 256 ELSE half % 256]) :
                         h \in {Sha256Blocks(Sha256H0, padded, 0) :
                                   padded \in {Sha256Pad(bytes)}}} : TRUE

(***************************************************************************)
(* np.random.default_rng(seed).choice([-1.0, 1.0], size): numpy's          *)
(* SeedSequence and PCG64.  An unsigned integer of 32 or 128 bits is the   *)
(* sequence of its bytes, least significant first.                         *)
(***************************************************************************)
\* a ^ b on two bytes
Xor8(a, b) == SumRange([i \in 1..8 |-> Pow2[i] * ((Bit(a, i - 1) + Bit(b, i - 1)) % 2)], 1, 8)

XorBytes(a, b) ==
    CHOOSE r \in {Array([i \in 1..Len(x) |-> Xor8(x[i], y[i])]) : x \in {a}, y \in {b}} : TRUE

\* acc with the digits lo..hi of cols added: each digit takes the carry of
\* the one before and hands on its own
RECURSIVE Carried(_, _, _, _)
Carried(cols, lo, hi, acc) ==
    IF lo = hi
    THEN CHOOSE r \in {[digits |-> Append(acc.digits, t % 256), carry |-> t \div 256] :
                          t \in {cols[lo] + acc.carry}} : TRUE
    ELSE CHOOSE r \in {Carried(cols, (lo + hi) \div 2 + 1, hi, half) :
                          half \in {Carried(cols, lo, (lo + hi) \div 2, acc)}} : TRUE

\* the bytes of the number whose k-th base-256 digit is cols[k] (carries are
\* propagated, the carry out of the last digit is dropped)
Normalize(cols) ==
    CHOOSE r \in {Carried(c, 1, Len(c), [digits |-> <<>>, carry |-> 0]).digits :
                     c \in {cols}} : TRUE

\* a + b modulo 256^Len(a)
AddBytes(a, b) ==
    CHOOSE r \in {Normalize(Array([k \in 1..Len(x) |-> x[k] + y[k]])) :
                     x \in {a}, y \in {b}} : TRUE

\* -a modulo 256^Len(a)
NegBytes(a) ==
    CHOOSE r \in {Normalize(Array([k \in 1..Len(x) |->
                                      255 - x[k] + (IF k = 1 THEN 1 ELSE 0)])) :
                     x \in {a}} : TRUE

\* a * b modulo 256^n
MulBytes(a, b, n) ==
    CHOOSE r \in {Normalize(Array([k \in 1..n |->
                      SumRange([i \in 1..k |->
                                   IF i <= Len(x) /\ k + 1 - i <= Len(y)
                                   THEN x[i] * y[k + 1 - i] ELSE 0], 1, k)])) :
                     x \in {a}, y \in {b}} : TRUE

\* value ^= value >> 16 on a 32-bit word (XSHIFT)
XorShift(value) ==
    CHOOSE r \in {XorBytes(v, <<v[3], v[4], 0, 0>>) : v \in {value}} : TRUE

\* SeedSequence constants
INIT_A == <<229, 215, 176, 67>>
MULT_A == <<117, 136, 30, 147>>
INIT_B == <<221, 249, 81, 139>>
MULT_B == <<237, 141, 243, 88>>
MIX_MULT_L == <<221, 249, 1, 202>>
MIX_MULT_R == <<21, 247, 115, 73>>

\* hashmix: value ^= hash_const; hash_const *= mult; value *= hash_const;
\* value ^= value >> 16.  Gives the value and the new hash_const.
HashMix(value, hash_const, mult) ==
    CHOOSE r \in {[hash_const |-> hc,
                   value |-> XorShift(MulBytes(XorBytes(value, hash_const), hc, 4))] :
                     hc \in {MulBytes(hash_const, mult, 4)}} : TRUE

\* mix: result = MIX_MULT_L * x - MIX_MULT_R * y; result ^= result >> 16
Mix(x, y) ==
    XorShift(AddBytes(MulBytes(MIX_MULT_L, x, 4), NegBytes(MulBytes(MIX_MULT_R, y, 4))))

\* mix_entropy, first loop: mixer[i] = hashmix(entropy[i]), or hashmix(0)
\* past the end of the entropy
RECURSIVE FillPool(_, _, _)
FillPool(pool, hash_const, entropy) ==
    IF Len(pool) >= 4 THEN [pool |-> pool, hash_const |-> hash_const]
    ELSE CHOOSE r \in {FillPool(Append(pool, h.value), h.hash_const, entropy) :
             h \in {HashMix(IF Len(pool) < Len(entropy) THEN entropy[Len(pool) + 1]
                            ELSE <<0, 0, 0, 0>>, hash_const, MULT_A)}} : TRUE

\* (i_src, i_dst) in the order of the second loop of mix_entropy
MixPairs ==
    <<<<1, 2>>, <<1, 3>>, <<1, 4>>, <<2, 1>>, <<2, 3>>, <<2, 4>>,
      <<3, 1>>, <<3, 2>>, <<3, 4>>, <<4, 1>>, <<4, 2>>, <<4, 3>>>>

\* mix_entropy, second loop, pairs number lo..hi:
\* mixer[i_dst] = mix(mixer[i_dst], hashmix(mixer[i_src]))
RECURSIVE MixPool(_, _, _)
MixPool(st, lo, hi) ==
    IF lo = hi
    THEN CHOOSE r \in {[pool |-> [st.pool EXCEPT ![MixPairs[lo][2]] =
                                      Mix(st.pool[MixPairs[lo][2]], h.value)],
                        hash_const |-> h.hash_const] :
                          h \in {HashMix(st.pool[MixPairs[lo][1]], st.hash_const, MULT_A)}} : TRUE
    ELSE CHOOSE r \in {MixPool(half, (lo + hi) \div 2 + 1, hi) :
                          half \in {MixPool(st, lo, (lo + hi) \div 2)}} : TRUE

\* SeedSequence(seed).pool for a seed below 2^64, given as its two 32-bit
\* words, least significant first (the third loop of mix_entropy, for an
\* entropy of more than four words, does not run)
SeedSequencePool(entropy) ==
    CHOOSE r \in {MixPool(filled, 1, Len(MixPairs)).pool :
                     filled \in {FillPool(<<>>, INIT_A, entropy)}} : TRUE

\* SeedSequence.generate_state: st with the 32-bit words number lo..hi
\* appended
RECURSIVE GenerateWords(_, _, _, _)
GenerateWords(pool, st, lo, hi) ==
    IF lo = hi
    THEN CHOOSE r \in {[words |-> Append(st.words, h.value), hash_const |-> h.hash_const] :
                          h \in {HashMix(pool[((lo - 1) % 4) + 1], st.hash_const, MULT_B)}} : TRUE
    ELSE CHOOSE r \in {GenerateWords(pool, half, (lo + hi) \div 2 + 1, hi) :
                          half \in {GenerateWords(pool, st, lo, (lo + hi) \div 2)}} : TRUE

\* SeedSequence.generate_state(n_words): n 32-bit words
GenerateState(pool, n) ==
    CHOOSE r \in {GenerateWords(p, [words |-> <<>>, hash_const |-> INIT_B], 1, n).words :
                     p \in {pool}} : TRUE

\* PCG_DEFAULT_MULTIPLIER_128
PcgMultiplier ==
    <<69, 246, 204, 159, 100, 223, 133, 67, 164, 93, 198, 31, 5, 237, 96, 35>>

\* state = state * PCG_DEFAULT_MULTIPLIER_128 + inc, modulo 2^128
PcgStep(state, inc) == AddBytes(MulBytes(state, PcgMultiplier, 16), inc)

\* PCG64(seed): generate_state(4, uint64) gives initstate (words 1..4, the
\* first uint64 its high half) and initseq (words 5..8); then
\* pcg_setseq_128_srandom_r: inc = (initseq << 1) | 1, state = 0, step,
\* state += initstate, step
PcgSeeded(words) ==
    CHOOSE r \in {[state |-> PcgStep(AddBytes(PcgStep([k \in 1..16 |-> 0], inc), initstate), inc),
                   inc |-> inc] :
                     initstate \in {words[3] \o words[4] \o words[1] \o words[2]},
                     inc \in {Normalize(Array([k \in 1..16 |->
                                 2 * (words[7] \o words[8] \o words[5] \o words[6])[k]
                                     + (IF k = 1 THEN 1 ELSE 0)]))}} : TRUE

\* bit i (0 the least significant) of the number with the bytes x
BitOf(x, i) == Bit(x[i \div 8 + 1], i % 8)

\* the XSL-RR output of a state: rotr64(high ^ low, state >> 122)
PcgOutput(state) ==
    CHOOSE r \in {Array([j \in 1..8 |->
                      SumRange([b \in 1..8 |->
                          Pow2[b] * BitOf(x, (8 * (j - 1) + b - 1 + rot) % 64)], 1, 8)]) :
                     x \in {XorBytes(SubSeq(state, 9, 16), SubSeq(state, 1, 8))},
                     rot \in {state[16] \div 4}} : TRUE

\* st after the 64-bit outputs number lo..hi: pcg64_next32 hands out the
\* low half of a 64-bit output, then its high half, and a draw of
\* integers(0, 2) is the top bit of a 32-bit output (Lemire's method with
\* range 2)
RECURSIVE PcgDraws(_, _, _, _)
PcgDraws(st, inc, lo, hi) ==
    IF lo = hi
    THEN CHOOSE r \in {[state |-> io.next,
                        draws |-> st.draws \o <<Bit(io.out[4], 7), Bit(io.out[8], 7)>>] :
                          io \in {[next |-> next, out |-> PcgOutput(next)] :
                                     next \in {PcgStep(st.state, inc)}}} : TRUE
    ELSE CHOOSE r \in {PcgDraws(half, inc, (lo + hi) \div 2 + 1, hi) :
                          half \in {PcgDraws(st, inc, lo, (lo + hi) \div 2)}} : TRUE

\* Generator.integers(0, 2, size): the first size draws
PcgIntegers(state, inc, size) ==
    IF size <= 0 THEN <<>>
    ELSE Take(PcgDraws([state |-> state, draws |-> <<>>], inc, 1, (size + 1) \div 2).draws, size)

\* rng.choice([-1.0, 1.0], size=chips_per_bit, replace=True) on
\* rng = default_rng(seed), the seed given as digest[:8]
SeededChoice(seed, size) ==
    CHOOSE r \in {Array([k \in 1..size |-> <<-1, 1>>[idx[k] + 1]]) :
             idx \in {PcgIntegers(rng.state, rng.inc, size) :
                 rng \in {PcgSeeded(GenerateState(pool, 8)) :
                     pool \in {SeedSequencePool(<<<<s[8], s[7], s[6], s[5]>>,
                                                  <<s[4], s[3], s[2], s[1]>>>>) :
                         s \in {seed}}}}} : TRUE

\* digest[:8] of the SHA-256 digest of the secret's UTF-8 bytes.  The seed,
\* int.from_bytes(digest[:8], "big"), is kept as those 8 bytes, most
\* significant first.
_generate_seed(secret) == Take(Sha256(EncodeUtf8(secret)), 8)

\* rng = np.random.default_rng(_generate_seed(secret));
\* chips = rng.choice([-1.0, 1.0], size=chips_per_bit, replace=True)
_generate_prn(secret, chips_per_bit) ==
    SeededChoice(_generate_seed(secret), chips_per_bit)

\* the secrets of the calls below
Secrets == {<<1>>, <<2, 3, 4>>}

ApiSecrets == {<<1, 2, 3, 4>>, <<5, 6, 7, 8>>}

\* max(8, len(tx_secret) * 4)
ChipsPerBit(tx_secret) == Max(8, Len(tx_secret) * 4)

\* _generate_prn for the secrets and the chip counts of the calls below,
\* computed once
Prns ==
    {[secret |-> s, chips_per_bit |-> n, chips |-> _generate_prn(s, n)] :
        s \in Secrets \cup ApiSecrets,
        n \in {ChipsPerBit(t) : t \in Secrets \cup ApiSecrets}}

\* Window sums of consecutive windows of chunk_size samples (the window mean
\* times chunk_size); a trailing partial window is dropped.
_chunk_mean(values, chunk_size) ==
    Array([k \in 1..(Len(values) \div chunk_size) |->
              SumRange(values, chunk_size * (k - 1) + 1, chunk_size * k)])

\* A variant whose placeholder for an empty bit array is a single zero chip.
SpreadBitsUnitPlaceholder(bits, prn, chips_per_bit) ==
    IF Len(bits) = 0 THEN <<0>>
    ELSE LET expanded_bits == _repeat(_nrz(bits), chips_per_bit)
             tiled_prn == Tile(prn, Len(bits))
         IN  Array([i \in 1..Len(expanded_bits) |-> expanded_bits[i] * tiled_prn[i]])

_spread_bits(bits, prn, chips_per_bit) ==
    IF Len(bits) = 0 THEN Array([i \in 1..chips_per_bit |-> 0])
    ELSE LET expanded_bits == _repeat(_nrz(bits), chips_per_bit)
             tiled_prn == Tile(prn, Len(bits))
         IN  Array([i \in 1..Len(expanded_bits) |-> expanded_bits[i] * tiled_prn[i]])

_build_source_waveform(bits, repeats) ==
    IF Len(bits) = 0 THEN Array([i \in 1..(IF repeats # 0 THEN repeats ELSE 1) |-> 0])
    ELSE _repeat(_nrz(bits), repeats)

\* 2 * cos(2 * pi * twelfths / 12) where that is an integer
TwiceCos(twelfths) ==
    CASE twelfths % 12 = 0 -> 2
      [] twelfths % 12 \in {2, 10} -> 1
      [] twelfths % 12 \in {3, 9} -> 0
      [] twelfths % 12 \in {4, 8} -> -1
      [] twelfths % 12 = 6 -> -2

\* carrier = cos(2 pi carrier_freq * n / sample_rate), n = 0 .. size-1, times 2
Carrier(size, carrier_freq, sample_rate) ==
    Array([i \in 1..size |-> TwiceCos((12 * carrier_freq * (i - 1)) \div sample_rate)])

Mul(a, b) == Array([i \in 1..Len(a) |-> a[i] * b[i]])

\* A sample the noise has been added to: a real number that the arguments of
\* the call do not determine.
NoisySample == "noisy"

\* signal + shaped_noise when the noise is on.  np.fft.rfftfreq(n, d=1.0 /
\* sample_rate) divides by sample_rate.
_band_limited_awgn(signal, noise_power, bandwidth, sample_rate) ==
    IF noise_power <= 0 \/ bandwidth <= 0
    THEN [raised |-> FALSE, noisy |-> FALSE, signal |-> signal]
    ELSE IF sample_rate = 0
    THEN [raised |-> TRUE, error |-> "ZeroDivisionError"]
    ELSE [raised |-> FALSE, noisy |-> TRUE,
          signal |-> Array([i \in 1..Len(signal) |-> NoisySample])]

(***************************************************************************)
(* DSSSEngine.simulate, up to the call of _store.  args holds the keyword  *)
(* arguments; draw is what the noise generator gives this call: the        *)
(* effect of the channel noise on the hard decisions (draw.flips).         *)
(***************************************************************************)
StageSnapshot(waveform, sample_rate) ==
    [waveform |-> waveform, sample_rate |-> sample_rate]

Raise(error) == [raised |-> TRUE, error |-> error]

\* (bit_metrics > 0).astype(np.uint8)
HardDecide(bit_metrics) ==
    Array([k \in 1..Len(bit_metrics) |-> IF bit_metrics[k] > 0 THEN 1 ELSE 0])

\* the hard decisions with those at the positions in flips inverted
Inverted(bits, flips) ==
    Array([k \in 1..Len(bits) |-> IF k \in flips THEN Xor(bits[k], 1) ELSE bits[k]])

\* The body of simulate, given the chips _generate_prn returns for the two
\* secrets and the decisions the noise inverts.
Pipeline(args, tx_prn, rx_prn, flips) ==
    LET message_bytes == EncodeUtf8(args.message)
        payload_bits == _text_to_bits(message_bytes)
        expected_bytes == Len(message_bytes)
        chips_per_bit == ChipsPerBit(args.tx_secret)
        oversampling == args.oversampling
        sample_rate == args.chip_rate * oversampling
        enc == _encode_bits(payload_bits, args.coding_scheme)
        encoded_bits == enc.bits
        spread_chips == _spread_bits(encoded_bits, tx_prn, chips_per_bit)
        chip_waveform == _repeat(spread_chips, oversampling)
        source_waveform ==
            _build_source_waveform(encoded_bits, chips_per_bit * oversampling)
        carrier == Carrier(Len(chip_waveform), args.carrier_freq, sample_rate)
        tx_signal == Mul(chip_waveform, carrier)
        chan == _band_limited_awgn(tx_signal, args.noise_power,
                                   args.noise_bandwidth, sample_rate)
        channel_output == chan.signal
        \* channel_output * carrier: exact where the channel is, and zero
        \* where the carrier is
        rx_demod ==
            IF chan.noisy
            THEN Array([i \in 1..Len(carrier) |->
                           IF carrier[i] = 0 THEN 0 ELSE NoisySample])
            ELSE Mul(channel_output, carrier)
        \* the bit metrics the noiseless signal gives; the noise moves them,
        \* and flips says which of them it moves across the threshold
        rx_chips == _chunk_mean(Mul(tx_signal, carrier), oversampling)
        despread ==
            Mul(rx_chips, Tile(rx_prn, IF Len(encoded_bits) # 0
                                       THEN Len(encoded_bits) ELSE 1))
        bit_metrics == _chunk_mean(despread, chips_per_bit)
        recovered_bits ==
            IF chan.noisy THEN Inverted(HardDecide(bit_metrics), flips)
            ELSE HardDecide(bit_metrics)
        dec == _decode_bits(recovered_bits, args.coding_scheme, enc.meta)
        decoded_bits == dec.bits
        recovered_after == ArrayAfterDecode(recovered_bits, args.coding_scheme)
        decoded == _bits_to_text(decoded_bits, expected_bytes)
        mismatch == decoded # args.message
        decoder_symbols ==
            IF Len(decoded_bits) # 0 THEN decoded_bits ELSE recovered_after
        decoder_waveform ==
            _repeat(_nrz(decoder_symbols), chips_per_bit * oversampling)
        stages ==
            [s \in StageName |->
                CASE s = "source" -> StageSnapshot(source_waveform, sample_rate)
                  [] s = "spreader" -> StageSnapshot(chip_waveform, sample_rate)
                  [] s = "modulator" -> StageSnapshot(tx_signal, sample_rate)
                  [] s = "channel" -> StageSnapshot(channel_output, sample_rate)
                  [] s = "correlator" -> StageSnapshot(rx_demod, sample_rate)
                  [] s = "decoder" -> StageSnapshot(decoder_waveform, sample_rate)]
    IN  IF enc.raised THEN Raise(enc.error)
        ELSE IF oversampling < 0 THEN Raise("ValueError")      \* np.repeat
        ELSE IF chan.raised THEN Raise(chan.error)
        ELSE IF oversampling <= 0 THEN Raise("ValueError")     \* _chunk_mean
        ELSE [raised |-> FALSE,
              decoded_message |-> decoded,
              mismatch |-> mismatch,
              stages |-> stages,
              recovered_bits |-> recovered_bits,
              recovered_after |-> recovered_after]

\* _generate_prn(secret, chips_per_bit), read from Prns where it is there
GeneratedPrn(secret, chips_per_bit) ==
    IF \E p \in Prns : p.secret = secret /\ p.chips_per_bit = chips_per_bit
    THEN (CHOOSE p \in Prns : p.secret = secret /\ p.chips_per_bit = chips_per_bit).chips
    ELSE _generate_prn(secret, chips_per_bit)

simulate(args, draw) ==
    Pipeline(args,
             GeneratedPrn(args.tx_secret, ChipsPerBit(args.tx_secret)),
             GeneratedPrn(args.rx_secret, ChipsPerBit(args.tx_secret)),
             draw.flips)

(***************************************************************************)
(* StageCache: the OrderedDict self._cache as a sequence of entries,       *)
(* oldest first.                                                           *)
(***************************************************************************)
CacheIds(c) == {c[i].id : i \in 1..Len(c)}

IndexOf(c, id) == CHOOSE i \in 1..Len(c) : c[i].id = id

\* del self._cache[simulation_id]
Delete(c, id) ==
    [i \in 1..(Len(c) - 1) |-> IF i < IndexOf(c, id) THEN c[i] ELSE c[i + 1]]

\* self._cache[simulation_id] = stages: a new key goes last, a present key
\* keeps its place and takes the new value
SetItem(c, id, stages) ==
    IF id \in CacheIds(c)
    THEN [i \in 1..Len(c) |-> IF c[i].id = id THEN [id |-> id, stages |-> stages]
                                               ELSE c[i]]
    ELSE Append(c, [id |-> id, stages |-> stages])

\* self._cache.popitem(last=False)
PopOldest(c) == Tail(c)

\* A variant of _store that assigns without deleting first: a re-stored id
\* keeps its old place in the order.
StoreKeepingPlace(c, capacity, simulation_id, stages) ==
    LET c2 == SetItem(c, simulation_id, stages)
    IN  IF Len(c2) > capacity THEN PopOldest(c2) ELSE c2

\* A variant of _store whose size test is off by one.
StoreEvictingLate(c, capacity, simulation_id, stages) ==
    LET c1 == IF simulation_id \in CacheIds(c) THEN Delete(c, simulation_id) ELSE c
        c2 == SetItem(c1, simulation_id, stages)
    IN  IF Len(c2) > capacity + 1 THEN PopOldest(c2) ELSE c2

\* DSSSEngine._store: the cache after the call
_store(c, capacity, simulation_id, stages) ==
    LET c1 == IF simulation_id \in CacheIds(c) THEN Delete(c, simulation_id) ELSE c
        c2 == SetItem(c1, simulation_id, stages)
    IN  IF Len(c2) > capacity THEN PopOldest(c2) ELSE c2

\* DSSSEngine.get_stage
get_stage(c, simulation_id, stage) ==
    IF simulation_id \notin CacheIds(c) THEN Raise("KeyError")
    ELSE LET stages == c[IndexOf(c, simulation_id)].stages
         IN  IF stage \notin DOMAIN stages THEN Raise("KeyError")
             ELSE [raised |-> FALSE, snapshot |-> stages[stage]]

(***************************************************************************)
(* Inputs                                                                  *)
(***************************************************************************)
SimIds == 1..MaxIds

NoCall == [op |-> "none"]

\* the parameters of DSSSEngine.simulate, none of which has a default
SimulateParams ==
    {"message", "tx_secret", "rx_secret", "chip_rate", "carrier_freq",
     "noise_power", "noise_bandwidth", "oversampling", "coding_scheme"}

\* the hard decisions the receiver takes in one call: one for each encoded
\* bit, one for the placeholder when there is none, none when the encoder
\* raises
Decisions(args) ==
    LET enc == _encode_bits(_text_to_bits(EncodeUtf8(args.message)), args.coding_scheme)
    IN  IF enc.raised THEN 0 ELSE Max(1, Len(enc.bits))

\* What the unseeded noise generator gives one call with the keyword
\* arguments args: flips, the hard decisions the channel noise inverts, any
\* of them when the noise is on, none when the noise is off or the call
\* raises before the channel.
DrawsFor(args) ==
    IF DOMAIN args # SimulateParams THEN [flips : {{}}]
    ELSE IF args.noise_power > 0 /\ args.noise_bandwidth > 0 /\ args.oversampling > 0
    THEN [flips : SUBSET (1..Decisions(args))]
    ELSE [flips : {{}}]

\* the keyword arguments of one simulate call
Args(message, tx_secret, rx_secret, chip_rate, carrier_freq, noise_power, noise_bandwidth, oversampling, coding_scheme) ==
    [message |-> message, tx_secret |-> tx_secret, rx_secret |-> rx_secret,
     chip_rate |-> chip_rate, carrier_freq |-> carrier_freq,
     noise_power |-> noise_power, noise_bandwidth |-> noise_bandwidth,
     oversampling |-> oversampling, coding_scheme |-> coding_scheme]

\* Messages: strings over 'A' (one byte in UTF-8) and U+00E9 (two bytes)
Messages == UNION {[1..k -> {65, 233}] : k \in 0..MaxMessageLen}

\* (chip_rate, carrier_freq) pairs whose carrier samples are exact
Rates == {<<4, 2>>, <<3, 10>>}

\* (noise_power, noise_bandwidth)
Noises == {<<0, 1>>, <<1, 0>>, <<1, 1>>}

Oversamplings == {-1, 0, 1, 2}

\* calls with the receiver's secret equal to the sender's and the noise off
MatchedArgs ==
    {Args(m, s, s, r[1], r[2], n[1], n[2], os, cs) :
        m \in Messages, s \in Secrets, r \in Rates, n \in {<<0, 1>>},
        os \in {1, 2}, cs \in CodingScheme}

\* calls with a receiver's secret that differs from the sender's
MismatchedArgs ==
    {Args(m, p[1], p[2], 4, 2, 0, 1, 1, cs) :
        m \in {<<>>, <<65>>}, p \in {q \in Secrets \X Secrets : q[1] # q[2]},
        cs \in CodingScheme}

\* calls with a positive noise power, the noise on or (bandwidth 0) off; with
\* the noise on, those of at most MaxNoisyDecisions hard decisions
NoisyArgs ==
    {a \in {Args(m, <<1>>, <<1>>, 4, 2, n[1], n[2], 1, cs) :
                m \in {<<>>, <<65>>}, n \in {<<1, 0>>, <<1, 1>>}, cs \in CodingScheme} :
        a.noise_bandwidth = 0 \/ Decisions(a) <= MaxNoisyDecisions}

\* calls with an oversampling factor or a coding scheme the engine rejects
RejectedArgs ==
    {a \in {Args(<<65>>, <<1>>, <<1>>, 4, 2, n[1], n[2], os, cs) :
                n \in Noises, os \in Oversamplings,
                cs \in {"nrz", UnsupportedScheme}} :
        a.oversampling < 1 \/ a.coding_scheme \notin CodingScheme}

\* The calls made on a freshly constructed engine
SimArgs == MatchedArgs \cup MismatchedArgs \cup NoisyArgs \cup RejectedArgs

\* The calls made on the engine whose cache is followed over many calls
EngineArgs ==
    {Args(<<>>, <<1>>, <<1>>, 4, 2, 0, 1, os, cs) :
        os \in {0, 1, 2}, cs \in {"nrz", UnsupportedScheme}}

\* the outcome of each of those calls for each thing the generators may give
EngineRuns == [a \in EngineArgs |-> [d \in DrawsFor(a) |-> simulate(a, d)]]

\* The stage maps simulate hands to _store for those calls
EngineStages ==
    UNION {{EngineRuns[a][d].stages : d \in {e \in DrawsFor(a) : ~EngineRuns[a][e].raised}} :
              a \in EngineArgs}

(***************************************************************************)
(* The engine, one call at a time                                          *)
(***************************************************************************)
Init ==
    /\ cache = <<>>
    /\ cache_size \in 1..MaxCacheSize
    /\ result = NoCall
    /\ order = <<>>
    /\ pc = <<>>
    /\ local = <<>>

\* the ids no earlier call was given
FreshIds == SimIds \ {order[i] : i \in 1..Len(order)}

\* uuid.uuid4().hex: an id no earlier call was given.  Ids are opaque and
\* _store takes any of them, so the least unused one stands for the new one.
NewIds == {id \in FreshIds : \A other \in FreshIds : id <= other}

\* the history after _store(id, ...): id is now the latest stored
Stored(o, id) == Append(SelectSeq(o, LAMBDA x : x # id), id)

\* A variant of simulate's tail that caches each stage as soon as it is
\* computed, so that a failing run leaves the stages it got to in the cache.
SimulateStoringEarly(args, run) ==
    /\ \E sim_id \in NewIds :
          /\ cache' = _store(cache, cache_size, sim_id,
                             IF run.raised THEN [s \in {"source"} |-> StageSnapshot(<<0>>, 0)]
                             ELSE run.stages)
          /\ order' = Stored(order, sim_id)
          /\ result' = IF run.raised
                       THEN [op |-> "simulate", args |-> args, raised |-> TRUE,
                             error |-> run.error]
                       ELSE [op |-> "simulate", args |-> args, raised |-> FALSE,
                             simulation_id |-> sim_id, run |-> run]
    /\ UNCHANGED <<cache_size, pc, local>>

\* DSSSEngine.simulate(**args): run is the outcome of the pipeline for args;
\* a run that raised ends the call, any other is stored under a fresh id.
Simulate(args, run) ==
    /\ \/ /\ run.raised
          /\ result' = [op |-> "simulate", args |-> args, raised |-> TRUE,
                        error |-> run.error]
          /\ UNCHANGED <<cache, order>>
       \/ /\ ~run.raised
          /\ \E sim_id \in NewIds :
                /\ cache' = _store(cache, cache_size, sim_id, run.stages)
                /\ order' = Stored(order, sim_id)
                /\ result' = [op |-> "simulate", args |-> args, raised |-> FALSE,
                              simulation_id |-> sim_id, run |-> run]
    /\ UNCHANGED <<cache_size, pc, local>>

\* engine._store(simulation_id, stages)
Store(simulation_id, stages) ==
    /\ cache' = _store(cache, cache_size, simulation_id, stages)
    /\ order' = Stored(order, simulation_id)
    /\ result' = [op |-> "_store", simulation_id |-> simulation_id, raised |-> FALSE]
    /\ UNCHANGED <<cache_size, pc, local>>

\* A variant of get_stage that refreshes the entry it reads (access-order LRU).
GetStageRefreshing(simulation_id, stage) ==
    /\ result' = [op |-> "get_stage", simulation_id |-> simulation_id,
                  stage |-> stage] @@ get_stage(cache, simulation_id, stage)
    /\ cache' = IF simulation_id \in CacheIds(cache)
                THEN Append(Delete(cache, simulation_id),
                            cache[IndexOf(cache, simulation_id)])
                ELSE cache
    /\ UNCHANGED <<cache_size, order, pc, local>>

\* engine.get_stage(simulation_id, stage)
GetStage(simulation_id, stage) ==
    /\ result' = [op |-> "get_stage", simulation_id |-> simulation_id,
                  stage |-> stage] @@ get_stage(cache, simulation_id, stage)
    /\ UNCHANGED <<cache, cache_size, order, pc, local>>

Next ==
    \/ \E args \in EngineArgs : \E draw \in DrawsFor(args) :
          Simulate(args, EngineRuns[args][draw])
    \/ \E id \in SimIds, stages \in EngineStages : Store(id, stages)
    \/ \E id \in SimIds, stage \in StageName : GetStage(id, stage)

Spec == Init /\ [][Next]_vars

(***************************************************************************)
(* One simulate call on a freshly constructed engine, over a wide range of *)
(* arguments and of what the random generators give.                      *)
(***************************************************************************)
\* DSSSEngine(): the default capacity
DefaultCacheSize == 16

InitDefault ==
    /\ cache = <<>>
    /\ cache_size = DefaultCacheSize
    /\ result = NoCall
    /\ order = <<>>
    /\ pc = <<>>
    /\ local = <<>>

SimNext ==
    /\ result.op = "none"
    /\ \E args \in SimArgs : \E draw \in DrawsFor(args) :
          Simulate(args, simulate(args, draw))

SpecSim == InitDefault /\ [][SimNext]_vars

(***************************************************************************)
(* The coder alone: encode, corrupt at most one bit, decode                *)
(* (as tests/test_dsss_engine.py does, without the corruption).            *)
(***************************************************************************)
\* the array with the bit at position pos (1-indexed) inverted; pos = 0: as is
FlipBit(bits, pos) == Array([i \in 1..Len(bits) |-> IF i = pos THEN Xor(bits[i], 1) ELSE bits[i]])

EncodeDecode(bits, scheme, flip) ==
    LET enc == _encode_bits(bits, scheme)
        received == FlipBit(enc.bits, flip)
        dec == _decode_bits(received, scheme, enc.meta)
    IN  /\ \/ /\ enc.raised
              /\ flip = 0
              /\ result' = [op |-> "codec", bits |-> bits, scheme |-> scheme,
                            raised |-> TRUE, error |-> enc.error]
           \/ /\ ~enc.raised
              /\ flip <= Len(enc.bits)
              /\ result' = [op |-> "codec", bits |-> bits, scheme |-> scheme,
                            raised |-> FALSE, flip |-> flip,
                            encoded |-> enc.bits, meta |-> enc.meta,
                            received |-> received, decoded |-> dec.bits,
                            received_after |-> ArrayAfterDecode(received, scheme)]
        /\ UNCHANGED <<cache, cache_size, order, pc, local>>

CodecNext ==
    /\ result.op = "none"
    /\ \E bits \in BitSeqs(MaxBits), scheme \in CodingScheme \cup {UnsupportedScheme},
          flip \in 0..(7 * ((MaxBits + 3) \div 4)) :
          EncodeDecode(bits, scheme, flip)

SpecCodec == InitDefault /\ [][CodecNext]_vars

(***************************************************************************)
(* routes.py: the HTTP handlers on the module's engine = DSSSEngine()      *)
(***************************************************************************)
\* engine.simulate(**kwargs): Python binds the arguments to the parameters
\* before the body runs, and raises TypeError when a required one is missing
CallSimulate(kwargs, draw) ==
    IF DOMAIN kwargs # SimulateParams THEN Raise("TypeError")
    ELSE simulate(kwargs, draw)

\* the keyword arguments run_simulation passes on
RouteKwargs(payload) ==
    [message |-> payload.message, tx_secret |-> payload.tx_secret,
     rx_secret |-> payload.rx_secret, chip_rate |-> payload.chip_rate,
     carrier_freq |-> payload.carrier_freq, noise_power |-> payload.noise_power,
     oversampling |-> payload.oversampling]

\* SimulationRequest: the field constraints
ValidRequest(payload) ==
    /\ Len(payload.message) >= 1 /\ Len(payload.message) <= 256
    /\ Len(payload.tx_secret) >= 4 /\ Len(payload.tx_secret) <= 64
    /\ Len(payload.rx_secret) >= 4 /\ Len(payload.rx_secret) <= 64
    /\ payload.chip_rate > 0
    /\ payload.carrier_freq > 0
    /\ payload.noise_power >= 0 /\ payload.noise_power <= 100
    /\ payload.noise_bandwidth > 0
    /\ payload.oversampling >= 1 /\ payload.oversampling <= 64
    /\ payload.coding_scheme \in CodingScheme

\* SimulationResponse(**fields): the fields without a default are required
SimulationResponse(fields) ==
    IF ~({"simulation_id", "decoded_message", "noise_bandwidth", "available_stages"}
            \subseteq DOMAIN fields)
    THEN Raise("ValidationError")
    ELSE [raised |-> FALSE,
          body |-> fields @@ [status |-> "complete", mismatch |-> FALSE,
                              coding_scheme |-> "nrz", inline_spectra |-> "None"]]

\* the fields run_simulation builds its response from
RouteResponseFields(sim_id, run) ==
    [simulation_id |-> sim_id, decoded_message |-> run.decoded_message,
     mismatch |-> run.mismatch, available_stages |-> DOMAIN run.stages,
     inline_spectra |-> {"modulator", "channel"} \cap DOMAIN run.stages]

\* POST /api/simulate.  An exception the handler does not catch is a 500.
RunSimulation(payload, draw) ==
    LET run == CallSimulate(RouteKwargs(payload), draw)
        Answer(status, error) ==
            [op |-> "run_simulation", request |-> payload, status |-> status,
             error |-> error]
    IN  /\ IF ~ValidRequest(payload)
           THEN result' = Answer(422, "RequestValidationError") /\ UNCHANGED <<cache, order>>
           ELSE IF run.raised
           THEN /\ result' = Answer(IF run.error = "ValueError" THEN 400 ELSE 500,
                                    run.error)
                /\ UNCHANGED <<cache, order>>
           ELSE \E sim_id \in NewIds :
                  LET resp == SimulationResponse(RouteResponseFields(sim_id, run))
                  IN  /\ cache' = _store(cache, cache_size, sim_id, run.stages)
                      /\ order' = Stored(order, sim_id)
                      /\ result' = IF resp.raised THEN Answer(500, resp.error)
                                   ELSE [op |-> "run_simulation", request |-> payload,
                                         status |-> 200, body |-> resp.body]
        /\ UNCHANGED <<cache_size, pc, local>>

\* math.ceil(arr.size / max_points)
CeilDiv(a, b) == (a + b - 1) \div b

\* _decimate: arr if it has at most max_points elements, else arr[::step]
_decimate(values, max_points) ==
    IF Len(values) <= max_points THEN values
    ELSE LET step == CeilDiv(Len(values), max_points)
         IN  Array([k \in 1..CeilDiv(Len(values), step) |-> values[(k - 1) * step + 1]])

\* The simulation_id query parameter of GET /api/spectra/{stage}: absent, or
\* a string.  The ids simulate hands out (uuid4().hex, 32 characters) are
\* numbered 1..MaxIds; any other string is given by its length alone and is
\* no key of the cache (NoId).
NoId == 0

StageQueries ==
    {[given |-> FALSE, simulation_id |-> NoId, length |-> 0]}
        \cup {[given |-> TRUE, simulation_id |-> id, length |-> 32] : id \in SimIds}
        \cup {[given |-> TRUE, simulation_id |-> NoId, length |-> n] : n \in {1, 7, 8}}

\* stage: StageName and simulation_id: str = Query(..., min_length=8)
ValidStageRequest(stage, query) ==
    /\ stage \in StageName
    /\ query.given
    /\ query.length >= 8

\* GET /api/spectra/{stage}?simulation_id=...  (the spectrum, an FFT of the
\* waveform, is left out of the body)
StageDetail(stage, query) ==
    LET got == get_stage(cache, query.simulation_id, stage)
        Answer(status) ==
            [op |-> "stage_detail", stage |-> stage, query |-> query, status |-> status]
    IN  /\ result' =
              IF ~ValidStageRequest(stage, query) THEN Answer(422)
              ELSE IF got.raised THEN Answer(404)
              ELSE Answer(200) @@
                   [waveform |-> [stage |-> stage,
                                  samples |-> _decimate(got.snapshot.waveform, 2048),
                                  sample_rate |-> got.snapshot.sample_rate]]
        /\ UNCHANGED <<cache, cache_size, order, pc, local>>

\* request bodies, among them ones whose fields break a constraint
Requests ==
    {Args(m, tx, rx, 4, 2, n, 1, os, cs) :
        m \in Messages, tx \in ApiSecrets, rx \in ApiSecrets, n \in {0, 1},
        os \in {0, 2}, cs \in {"nrz", "hamming74", UnsupportedScheme}}

ApiNext ==
    \/ \E payload \in Requests : \E draw \in DrawsFor(RouteKwargs(payload)) :
          RunSimulation(payload, draw)
    \/ \E stage \in StageName \cup {"bogus"}, query \in StageQueries :
          StageDetail(stage, query)

SpecApi == InitDefault /\ [][ApiNext]_vars

(***************************************************************************)
(* Several threads calling one engine.  DSSSEngine holds no lock: a thread *)
(* may be switched out between any two statements of _store (lines 209 to  *)
(* 213), each of which is one dictionary operation.                        *)
(***************************************************************************)
Threads == 1..NumThreads

\* the stage map the concurrent callers store: that of an empty message, the
\* same whatever chips the generator gives
ConcStages ==
    LET args == Args(<<>>, <<1>>, <<1>>, 4, 2, 0, 1, 1, "nrz")
    IN  CHOOSE stages \in {EngineRuns[args][d].stages : d \in DrawsFor(args)} : TRUE

InitConc ==
    /\ cache = <<>>
    /\ cache_size \in 1..MaxCacheSize
    /\ result = NoCall
    /\ order = <<>>
    /\ pc = [t \in Threads |-> "idle"]
    /\ local = [t \in Threads |-> 0]

\* ids neither cached nor in the hands of a thread
UnusedIds ==
    {id \in SimIds : id \notin CacheIds(cache)
                     /\ \A t \in Threads : pc[t] = "idle" \/ local[t] # id}

Goto(t, label) == pc' = [pc EXCEPT ![t] = label]

\* simulate has run its pipeline and calls self._store(sim_id, stages) with
\* sim_id = uuid.uuid4().hex
SimulateCallsStore(t) ==
    /\ pc[t] = "idle"
    /\ \E sim_id \in UnusedIds : local' = [local EXCEPT ![t] = sim_id]
    /\ Goto(t, "209")
    /\ UNCHANGED <<cache, cache_size, result, order>>

\* a caller hands _store an id of its choosing
CallStore(t, simulation_id) ==
    /\ pc[t] = "idle"
    /\ local' = [local EXCEPT ![t] = simulation_id]
    /\ Goto(t, "209")
    /\ UNCHANGED <<cache, cache_size, result, order>>

\* line 209: if simulation_id in self._cache
StoreTestsPresence(t) ==
    /\ pc[t] = "209"
    /\ Goto(t, IF local[t] \in CacheIds(cache) THEN "210" ELSE "211")
    /\ UNCHANGED <<cache, cache_size, result, order, local>>

\* line 210: del self._cache[simulation_id]
StoreDeletes(t) ==
    /\ pc[t] = "210"
    /\ \/ /\ local[t] \in CacheIds(cache)
          /\ cache' = Delete(cache, local[t])
          /\ Goto(t, "211")
          /\ UNCHANGED result
       \/ /\ local[t] \notin CacheIds(cache)
          /\ result' = [op |-> "_store", raised |-> TRUE, error |-> "KeyError"]
          /\ Goto(t, "idle")
          /\ UNCHANGED cache
    /\ UNCHANGED <<cache_size, order, local>>

\* line 211: self._cache[simulation_id] = stages
StoreInserts(t) ==
    /\ pc[t] = "211"
    /\ cache' = SetItem(cache, local[t], ConcStages)
    /\ Goto(t, "212")
    /\ UNCHANGED <<cache_size, result, order, local>>

\* line 212: if len(self._cache) > self._cache_size
StoreTestsSize(t) ==
    /\ pc[t] = "212"
    /\ Goto(t, IF Len(cache) > cache_size THEN "213" ELSE "idle")
    /\ UNCHANGED <<cache, cache_size, result, order, local>>

\* line 213: self._cache.popitem(last=False)
StoreEvicts(t) ==
    /\ pc[t] = "213"
    /\ cache' = IF cache = <<>> THEN cache ELSE PopOldest(cache)
    /\ result' = IF cache = <<>>
                 THEN [op |-> "_store", raised |-> TRUE, error |-> "KeyError"]
                 ELSE result
    /\ Goto(t, "idle")
    /\ UNCHANGED <<cache_size, order, local>>

\* get_stage: one read of the dictionary
ThreadGetsStage(t, simulation_id, stage) ==
    /\ pc[t] = "idle"
    /\ result' = [op |-> "get_stage",
                  raised |-> get_stage(cache, simulation_id, stage).raised]
    /\ UNCHANGED <<cache, cache_size, order, pc, local>>

ConcNext ==
    \E t \in Threads :
        \/ SimulateCallsStore(t)
        \/ \E id \in SimIds : CallStore(t, id)
        \/ StoreTestsPresence(t)
        \/ StoreDeletes(t)
        \/ StoreInserts(t)
        \/ StoreTestsSize(t)
        \/ StoreEvicts(t)
        \/ \E id \in SimIds, stage \in StageName : ThreadGetsStage(t, id, stage)

SpecConc == InitConc /\ [][ConcNext]_vars

(***************************************************************************)
(* Properties                                                              *)
(***************************************************************************)
IsSimulate == result.op = "simulate"

\* the arguments are in the domain of the engine's interface
ValidArgs(args) == args.oversampling >= 1 /\ args.coding_scheme \in CodingScheme

EncodedCount(args) ==
    Len(_encode_bits(_text_to_bits(EncodeUtf8(args.message)), args.coding_scheme).bits)

PayloadCount(args) == Len(_text_to_bits(EncodeUtf8(args.message)))

WaveLen(stage) == Len(result.run.stages[stage].waveform)

\* C1: simulate with tx_secret = rx_secret and noise_power = 0 completes and
\* returns decoded_message equal to the message and mismatch = false, for every
\* message, coding scheme, oversampling factor and secret.
C1_CleanChannelRoundTrip ==
    (/\ IsSimulate
     /\ ValidArgs(result.args)
     /\ result.args.tx_secret = result.args.rx_secret
     /\ result.args.noise_power = 0)
    => /\ ~result.raised
       /\ result.run.decoded_message = result.args.message
       /\ result.run.mismatch = FALSE

C1_Witness ==
    /\ IsSimulate
    /\ ~result.raised
    /\ result.args.coding_scheme = "hamming74"
    /\ result.args.message = <<233>>
    /\ result.args.tx_secret = result.args.rx_secret
    /\ result.args.noise_power = 0
    /\ result.args.oversampling = 2
    /\ result.run.decoded_message = <<233>>
    /\ ~result.run.mismatch

IsCodec == result.op = "codec" /\ ~result.raised

\* C2: decoding the uncorrupted encoding of any bit array b with the encoder's
\* metadata gives b back, for each of the four schemes, and the metadata holds
\* payload_bits = len(b), repeat = 3 for Repeat3 and padding = (-len(b)) mod 4
\* for Hamming(7,4).
C2_EncodeDecodeRoundTrip ==
    (IsCodec /\ result.flip = 0)
    => /\ result.decoded = result.bits
       /\ result.meta["payload_bits"] = Len(result.bits)
       /\ (result.scheme = "rep3") =>
             (DOMAIN result.meta = {"payload_bits", "repeat"} /\ result.meta["repeat"] = 3)
       /\ (result.scheme = "hamming74") =>
             /\ DOMAIN result.meta = {"payload_bits", "padding"}
             /\ result.meta["padding"] \in 0..3
             /\ (Len(result.bits) + result.meta["padding"]) % 4 = 0

C2_Witness ==
    /\ IsCodec
    /\ result.flip = 0
    /\ result.scheme = "hamming74"
    /\ Len(result.bits) = 5
    /\ result.meta["padding"] = 3
    /\ Len(result.encoded) = 14
    /\ result.decoded = result.bits

\* C3: flipping exactly one bit of a Hamming(7,4) codeword and decoding gives
\* the original data bits back, for every data block and every position.
C3_SingleErrorCorrected ==
    (IsCodec /\ result.scheme = "hamming74" /\ result.flip >= 1)
    => result.decoded = result.bits

C3_Witness ==
    /\ IsCodec
    /\ result.scheme = "hamming74"
    /\ result.bits = <<1, 0, 1, 1>>
    /\ result.flip = 7
    /\ result.received # result.encoded
    /\ result.decoded = result.bits

\* the step is a completed _store of id (directly, or at the end of simulate)
StoredNow(id) ==
    /\ result'.op \in {"simulate", "_store"}
    /\ ~result'.raised
    /\ result'.simulation_id = id

\* the id of a set of ids that was stored least recently, by the history o
EarliestInserted(ids, o) ==
    o[CHOOSE i \in 1..Len(o) : o[i] \in ids /\ \A j \in 1..(i - 1) : o[j] \notin ids]

\* C4: a store that would leave the cache above its capacity evicts exactly
\* one entry, the earliest inserted one, where re-storing a present id counts
\* as a new insertion; any other store evicts nothing; get_stage on the evicted
\* id raises KeyError.
C4_EvictsEarliestInserted ==
    [][\A id \in SimIds :
        StoredNow(id) =>
            LET held == CacheIds(cache) \cup {id}
                evicted == held \ CacheIds(cache')
            IN  /\ CacheIds(cache') \subseteq held
                /\ id \in CacheIds(cache')
                /\ IF Cardinality(held) > cache_size
                   THEN /\ evicted = {EarliestInserted(held, order')}
                        /\ \A s \in StageName :
                              get_stage(cache', EarliestInserted(held, order'), s)
                                  = Raise("KeyError")
                   ELSE evicted = {}]_vars

\* an id was re-stored and a later store evicted another, earlier, id
C4_Witness ==
    /\ result.op = "_store"
    /\ cache_size = 2
    /\ order = <<2, 1, 3>>
    /\ CacheIds(cache) = {1, 3}
    /\ cache[1].id = 1
    /\ get_stage(cache, 2, "source") = Raise("KeyError")

\* C5: the cache never holds more ids than cache_size, whatever simulate,
\* _store and get_stage calls were made.
C5_CacheBounded ==
    /\ Len(cache) <= cache_size
    /\ Cardinality(CacheIds(cache)) = Len(cache)

\* the cache is full and an entry has been evicted
C5_Witness ==
    /\ Len(cache) = cache_size
    /\ Len(order) > cache_size
    /\ result.op = "simulate"
    /\ ~result.raised

\* C6: a simulate call either completes, after which get_stage succeeds on the
\* returned id for each of the six stages, or raises and leaves the cache as
\* it was; every cached entry holds all six stages.
C6_AllStagesOrNothing ==
    [][/\ \A i \in 1..Len(cache') : DOMAIN cache'[i].stages = StageName
       /\ (result'.op = "simulate" /\ ~result'.raised) =>
             \A s \in StageName :
                 get_stage(cache', result'.simulation_id, s)
                     = [raised |-> FALSE, snapshot |-> result'.run.stages[s]]
       /\ (result'.op = "simulate" /\ result'.raised) => cache' = cache]_vars

\* a call that raised (unsupported scheme, oversampling 0) on a filled cache
C6_Witness ==
    /\ IsSimulate
    /\ result.raised
    /\ result.error = "ValueError"
    /\ Len(cache) = 2

NonSourceStages == {"spreader", "modulator", "channel", "correlator", "decoder"}

SamplesPerBit(args) == ChipsPerBit(args.tx_secret) * args.oversampling

\* C7 as stated: every non-source stage waveform has length encoded-bit-count
\* x chips-per-bit x oversampling, and length 1 when the encoded-bit-count is 0.
C7_AsStated ==
    (IsSimulate /\ ~result.raised) =>
        \A s \in NonSourceStages :
            WaveLen(s) = IF EncodedCount(result.args) = 0 THEN 1
                         ELSE EncodedCount(result.args) * SamplesPerBit(result.args)

\* C7, amended: the spreader, modulator, channel and correlator waveforms have
\* length max(1, encoded-bit-count) x chips-per-bit x oversampling, and the
\* decoder waveform has length max(1, payload-bit-count) x chips-per-bit x
\* oversampling.
C7_StageLengths ==
    (IsSimulate /\ ~result.raised) =>
        /\ \A s \in NonSourceStages \ {"decoder"} :
              WaveLen(s) = Max(1, EncodedCount(result.args)) * SamplesPerBit(result.args)
        /\ WaveLen("decoder")
              = Max(1, PayloadCount(result.args)) * SamplesPerBit(result.args)

C7_Witness ==
    /\ IsSimulate
    /\ ~result.raised
    /\ result.args.coding_scheme = "manchester"
    /\ result.args.message = <<65>>
    /\ result.args.oversampling = 2
    /\ result.args.tx_secret = <<2, 3, 4>>
    /\ WaveLen("spreader") = 16 * 12 * 2
    /\ WaveLen("decoder") = 8 * 12 * 2

\* the cache holds the ids stored latest, as many as fit, oldest first
NewestStored(o, capacity) ==
    SubSeq(o, Max(Len(o) - capacity, 0) + 1, Len(o))

\* C9: get_stage, found or not, leaves the cache and its eviction order as
\* they were: what the cache holds depends on the stores alone, however often
\* an entry was read.
C9_GetStageReadsOnly ==
    [][/\ (result'.op = "get_stage") => cache' = cache
       /\ [i \in 1..Len(cache') |-> cache'[i].id] = NewestStored(order', cache_size)]_vars

\* the oldest entry of a full cache was read and is still the oldest
C9_Witness ==
    /\ result.op = "get_stage"
    /\ ~result.raised
    /\ Len(cache) = 2
    /\ cache_size = 2
    /\ cache[1].id = result.simulation_id
    /\ Len(order) = 3

\* C8: a valid POST /api/simulate with equal secrets and noise_power 0 is
\* answered 200 with decoded_message equal to the message, mismatch false, a
\* non-empty available_stages, and the request's coding_scheme and
\* noise_bandwidth.
C8_SimulateEndpointAnswers ==
    (/\ result.op = "run_simulation"
     /\ ValidRequest(result.request)
     /\ result.request.tx_secret = result.request.rx_secret
     /\ result.request.noise_power = 0)
    => /\ result.status = 200
       /\ result.body.decoded_message = result.request.message
       /\ result.body.mismatch = FALSE
       /\ result.body.available_stages # {}
       /\ result.body.coding_scheme = result.request.coding_scheme
       /\ result.body.noise_bandwidth = result.request.noise_bandwidth

\* the thread has inserted (line 211) and has not yet tested the size and
\* evicted (lines 212, 213)
AfterInsert(t) == pc[t] \in {"212", "213"}

\* C10: the store steps of concurrent calls are serialized: no call mutates
\* the cache between another call's insert and its eviction, so the cache holds
\* more than cache_size entries only inside one call's _store, and then one
\* entry more.
C10_StoreStepsSerialized ==
    /\ \A t, u \in Threads : (t # u) => ~(AfterInsert(t) /\ AfterInsert(u))
    /\ Len(cache) <= cache_size + 1
    /\ (Len(cache) > cache_size) => \E t \in Threads : AfterInsert(t)

\* C11: _decode_bits leaves its argument as it found it: for every scheme and
\* every received bit array, corrupted Hamming(7,4) codewords included, the
\* array the caller passed holds the same values after the call as before.
C11_DecodeLeavesInputUnchanged ==
    IsCodec => result.received_after = result.received

====
